---- MODULE Spec2Model ----
(***************************************************************************)
(* Topology discoverer of ng-monitoring (package topology).                *)
(*                                                                         *)
(* One background goroutine (loadTopologyLoop) refreshes d.components from *)
(* three registry adapters and fans the stored snapshot out to the         *)
(* subscriber channels; any number of callers run Subscribe, one caller    *)
(* runs Start and Close, and every subscriber drains its own channel.      *)
(*                                                                         *)
(* A []Component value is modelled as a record [cycle, comps]: comps is    *)
(* the slice's content and cycle is the index of the loadTopology call     *)
(* that allocated its backing array (0 for the nil slice of a fresh        *)
(* discoverer).                                                            *)
(***************************************************************************)
EXTENDS Naturals, Sequences, FiniteSets

\* ------------------------------------------------------------- bounds
\* Number of Subscribe calls (one caller goroutine each).
MaxSub == 2
\* Number of loadTopology calls the environment lets the loop start.
MaxCycle == 2
\* Longest list of PD endpoints in a configuration.
MaxEndpoints == 2
\* Most instances a registry lists in one answer.
MaxInst == 2

\* ---------------------------------------------------------- constants
\* make(chan struct{}, 1)
NotifyChCap == 1
\* make(chan []Component, 1)
SubscriberChCap == 1
\* len(fns) in getAllScrapeTargets
NumFns == 3

ComponentTiDB == "tidb"
ComponentTiKV == "tikv"
ComponentTiFlash == "tiflash"
ComponentPD == "pd"
ComponentStatusUp == "up"
ComponentStatusDown == "down"

Procs == 1..MaxSub

\* ------------------------------------------------ registry replies
\* What the upstream registries answer in one call: an error, or lists of
\* instances with a status.
TiDBUp(ip) == [IP |-> ip, Port |-> 4000, StatusPort |-> 10080, Status |-> ComponentStatusUp]
TiDBDown(ip) == [IP |-> ip, Port |-> 4000, StatusPort |-> 10080, Status |-> ComponentStatusDown]
PDUp(ip) == [IP |-> ip, Port |-> 2379, Status |-> ComponentStatusUp]
PDDown(ip) == [IP |-> ip, Port |-> 2379, Status |-> ComponentStatusDown]
StoreUp(ip, port, sport) == [IP |-> ip, Port |-> port, StatusPort |-> sport, Status |-> ComponentStatusUp]
StoreDown(ip, port, sport) == [IP |-> ip, Port |-> port, StatusPort |-> sport, Status |-> ComponentStatusDown]

ErrReply == [err |-> TRUE, instances |-> <<>>, tiflash |-> <<>>]
OkReply(a, b) == [err |-> FALSE, instances |-> a, tiflash |-> b]

TiDBReplies ==
    { ErrReply,
      OkReply(<<TiDBDown("10.0.0.1"), TiDBUp("10.0.0.4")>>, <<>>) }

PDReplies ==
    { ErrReply,
      OkReply(<<PDUp("10.0.0.2"), PDDown("10.0.0.5")>>, <<>>) }

StoreReplies ==
    { ErrReply,
      OkReply(<<StoreUp("10.0.0.3", 20160, 20180)>>,
              <<StoreDown("10.0.0.6", 3930, 20292), StoreUp("10.0.0.7", 3930, 20292)>>) }

\* Every answer without error that lists at most MaxInst instances, taken
\* from two that are up and one that is down for each kind of component;
\* a list may name an instance twice.
TiDBPool == {TiDBUp("10.0.0.4"), TiDBUp("10.0.0.8"), TiDBDown("10.0.0.1")}
PDPool == {PDUp("10.0.0.2"), PDUp("10.0.0.9"), PDDown("10.0.0.5")}
TiKVPool ==
    {StoreUp("10.0.0.3", 20160, 20180), StoreUp("10.0.0.10", 20160, 20180),
     StoreDown("10.0.0.11", 20160, 20180)}
TiFlashPool ==
    {StoreUp("10.0.0.7", 3930, 20292), StoreUp("10.0.0.12", 3930, 20292),
     StoreDown("10.0.0.6", 3930, 20292)}

Lists(S, n) == UNION {[1..k -> S] : k \in 0..n}

AllTiDBReplies == {OkReply(a, <<>>) : a \in Lists(TiDBPool, MaxInst)}
AllPDReplies == {OkReply(a, <<>>) : a \in Lists(PDPool, MaxInst)}
AllStoreReplies ==
    UNION {{OkReply(a, b) : b \in Lists(TiFlashPool, MaxInst - Len(a))} :
           a \in Lists(TiKVPool, MaxInst)}

AllReplies(i) ==
    IF i = 1 THEN AllTiDBReplies ELSE IF i = 2 THEN AllPDReplies ELSE AllStoreReplies

\* ------------------------------------------------------- adapters
Result(e, n) == [err |-> e, nodes |-> n]

\* Variant: the status of an instance is not looked at.
IsUpAny(instance) == TRUE

IsUp(instance) == instance.Status = ComponentStatusUp

MapSeq(s, F(_)) == [i \in 1..Len(s) |-> F(s[i])]

TiDBComponent(instance) ==
    [Name |-> ComponentTiDB, IP |-> instance.IP, Port |-> instance.Port,
     StatusPort |-> instance.StatusPort]

PDComponent(instance) ==
    [Name |-> ComponentPD, IP |-> instance.IP, Port |-> instance.Port,
     StatusPort |-> instance.Port]

TiKVComponent(instance) ==
    [Name |-> ComponentTiKV, IP |-> instance.IP, Port |-> instance.Port,
     StatusPort |-> instance.StatusPort]

TiFlashComponent(instance) ==
    [Name |-> ComponentTiFlash, IP |-> instance.IP, Port |-> instance.Port,
     StatusPort |-> instance.StatusPort]

getTiDBComponents(reply) ==
    IF reply.err THEN Result(TRUE, <<>>)
    ELSE Result(FALSE, MapSeq(SelectSeq(reply.instances, IsUp), TiDBComponent))

getPDComponents(reply) ==
    IF reply.err THEN Result(TRUE, <<>>)
    ELSE Result(FALSE, MapSeq(SelectSeq(reply.instances, IsUp), PDComponent))

\* Variant: the tiflash instances are appended before the tikv instances.
getStoreComponentsSwapped(reply) ==
    IF reply.err THEN Result(TRUE, <<>>)
    ELSE Result(FALSE, MapSeq(SelectSeq(reply.tiflash, IsUp), TiFlashComponent)
                       \o MapSeq(SelectSeq(reply.instances, IsUp), TiKVComponent))

getStoreComponents(reply) ==
    IF reply.err THEN Result(TRUE, <<>>)
    ELSE Result(FALSE, MapSeq(SelectSeq(reply.instances, IsUp), TiKVComponent)
                       \o MapSeq(SelectSeq(reply.tiflash, IsUp), TiFlashComponent))

\* fns[i] of getAllScrapeTargets, applied to the reply its registry gives.
Fns(i, reply) ==
    IF i = 1 THEN getTiDBComponents(reply)
    ELSE IF i = 2 THEN getPDComponents(reply)
    ELSE getStoreComponents(reply)

Replies(i) ==
    IF i = 1 THEN TiDBReplies ELSE IF i = 2 THEN PDReplies ELSE StoreReplies

\* ---------------------------------------------------------- state
VARIABLES
    started,      \* Start has been called
    closed,       \* d.closed is closed
    etcdOpen,     \* d.etcdCli is open
    subscriber,   \* d.subscriber: sequence of channels (named by their creator)
    components,   \* d.components
    notifyCh,     \* number of values buffered in d.notifyCh
    mutex,        \* holder of d's sync.Mutex, 0 when free
    mailbox,      \* buffer of each subscriber channel
    tickerC,      \* a tick is buffered in ticker.C
    pc,           \* position of the loadTopologyLoop goroutine
    first,        \* the loop is in the loadTopology call of line 99
    err,          \* loadTopologyLoop's err variable (TRUE: non-nil)
    fnIdx,        \* getAllScrapeTargets: index into fns
    acc,          \* getAllScrapeTargets: its local components slice
    rng,          \* notifySubscriber: the slice the range expression evaluated to
    idx,          \* notifySubscriber: range index
    site,         \* notifySubscriber: the select case that called it
    cycle,        \* number of loadTopology calls started
    spc,          \* position of each Subscribe caller
    old,          \* Subscribe: the d.subscriber value append was given
    anyErr,       \* history: a registry answered the current cycle with an error
    produced,     \* history: results of the cycles all of whose registries answered
    wasFull,      \* history: channels of the current range that held a value when it began
    lastRead,     \* history: cycle of the snapshot each subscriber received last
    cfg,          \* the *config.Config NewTopologyDiscoverer is given
    made,         \* what NewTopologyDiscoverer returned and created
    hung,         \* the registry call in flight does not answer
    got,          \* history: the registry answers of the current cycle
    notified      \* history: channels a snapshot was ever put into

vars == <<started, closed, etcdOpen, subscriber, components, notifyCh, mutex, mailbox,
          tickerC, pc, first, err, fnIdx, acc, rng, idx, site, cycle, spc, old,
          anyErr, produced, wasFull, lastRead, cfg, made, hung, got, notified>>

envVars == <<started, closed, etcdOpen, tickerC>>
discVars == <<subscriber, components, notifyCh, mutex, mailbox>>
loadLocals == <<fnIdx, acc, cycle, anyErr>>
notifyLocals == <<rng, idx, site, wasFull>>
subLocals == <<spc, old>>
ctorVars == <<cfg, made>>
callVars == <<hung, got>>

NilSnapshot == [cycle |-> 0, comps |-> <<>>]

\* ---------------------------------------------------- construction
\* cfg.PD.Endpoints ranges over the lists of at most MaxEndpoints of these.
Endpoints == {"pd-0:2379", "pd-1:2379"}

\* The fields of *config.Config the constructor reads, and whether the two
\* client constructors of package pdclient fail for it.
Configs ==
    [Endpoints : Lists(Endpoints, MaxEndpoints),
     Scheme : {"http", "https"},
     pdCliFails : BOOLEAN,
     etcdCliFails : BOOLEAN]

\* A configuration with which construction succeeds.
GoodConfig ==
    [Endpoints |-> <<"pd-0:2379">>, Scheme |-> "http",
     pdCliFails |-> FALSE, etcdCliFails |-> FALSE]

NilClient == [nil |-> TRUE]
NilDiscoverer == [nil |-> TRUE]

\* pdclient.NewAPIClient(httpclient.APIClientConfig{Endpoint: scheme://endpoint})
NewAPIClient(scheme, endpoint, fails) ==
    IF fails THEN [cli |-> NilClient, err |-> TRUE]
    ELSE [cli |-> [nil |-> FALSE, Endpoint |-> <<scheme, "://", endpoint>>], err |-> FALSE]

\* pdclient.NewEtcdClient(pdclient.EtcdClientConfig{Endpoints: endpoints})
NewEtcdClient(endpoints, fails) ==
    IF fails THEN [cli |-> NilClient, err |-> TRUE]
    ELSE [cli |-> [nil |-> FALSE, Endpoints |-> endpoints], err |-> FALSE]

\* What a call of the constructor returns (d, err) and which clients it has
\* created by then (pdCli, etcdCli).
Made(d, err_, pdCli, etcdCli) ==
    [called |-> TRUE, d |-> d, err |-> err_, pdCli |-> pdCli, etcdCli |-> etcdCli]

NotMade ==
    [called |-> FALSE, d |-> NilDiscoverer, err |-> FALSE,
     pdCli |-> NilClient, etcdCli |-> NilClient]

\* Variant: the error of NewEtcdClient is not looked at.
NewTopologyDiscovererIgnoreErr(c) ==
    IF Len(c.Endpoints) = 0
    THEN Made(NilDiscoverer, TRUE, NilClient, NilClient)
    ELSE LET pd == NewAPIClient(c.Scheme, c.Endpoints[1], c.pdCliFails)
             etcd == NewEtcdClient(c.Endpoints, c.etcdCliFails)
         IN  IF pd.err
             THEN Made(NilDiscoverer, TRUE, NilClient, NilClient)
             ELSE Made([nil |-> FALSE, pdCli |-> pd.cli, etcdCli |-> etcd.cli,
                        notifyChCap |-> NotifyChCap],
                       FALSE, pd.cli, etcd.cli)

\* NewTopologyDiscoverer(cfg)
NewTopologyDiscoverer(c) ==
    IF Len(c.Endpoints) = 0
    THEN Made(NilDiscoverer, TRUE, NilClient, NilClient)
    ELSE LET pd == NewAPIClient(c.Scheme, c.Endpoints[1], c.pdCliFails)
             etcd == NewEtcdClient(c.Endpoints, c.etcdCliFails)
         IN  IF pd.err
             THEN Made(NilDiscoverer, TRUE, NilClient, NilClient)
             ELSE IF etcd.err
             THEN Made(NilDiscoverer, TRUE, pd.cli, NilClient)
             ELSE Made([nil |-> FALSE, pdCli |-> pd.cli, etcdCli |-> etcd.cli,
                        notifyChCap |-> NotifyChCap],
                       FALSE, pd.cli, etcd.cli)

\* The fields of a discoverer NewTopologyDiscoverer has just built, lines
\* 67-72: nil subscriber and components, empty notifyCh, open closed-channel;
\* no goroutine runs yet.
Fresh ==
    /\ started = FALSE
    /\ closed = FALSE
    /\ etcdOpen = TRUE
    /\ subscriber = <<>>
    /\ components = NilSnapshot
    /\ notifyCh = 0
    /\ mutex = 0
    /\ mailbox = [p \in Procs |-> <<>>]
    /\ tickerC = FALSE
    /\ pc = "idle"
    /\ first = FALSE
    /\ err = FALSE
    /\ fnIdx = 0
    /\ acc = NilSnapshot
    /\ rng = <<>>
    /\ idx = 0
    /\ site = "none"
    /\ cycle = 0
    /\ spc = [p \in Procs |-> "idle"]
    /\ old = [p \in Procs |-> <<>>]
    /\ anyErr = FALSE
    /\ produced = {}
    /\ wasFull = {}
    /\ lastRead = [p \in Procs |-> 0]
    /\ hung = FALSE
    /\ got = <<>>
    /\ notified = {}

\* The discoverer's life begins when the constructor has returned it.
Init ==
    /\ cfg = GoodConfig
    /\ made = NewTopologyDiscoverer(cfg)
    /\ Fresh

\* Before the constructor is called, with any configuration.
InitNew ==
    /\ cfg \in Configs
    /\ made = NotMade
    /\ Fresh

\* The call NewTopologyDiscoverer(cfg) returns.
Construct ==
    /\ ~made.called
    /\ made' = NewTopologyDiscoverer(cfg)
    /\ UNCHANGED <<envVars, discVars, pc, first, err, loadLocals, notifyLocals,
                   subLocals, produced, lastRead, cfg, callVars, notified>>

\* ------------------------------------------------- channel operations
\* Variant: the send is made whatever the channel holds.
TrySendAlways(buf, v) == Append(buf, v)

\* Variant: the test of the channel's room is inverted.
TrySendInverted(buf, v) == IF Len(buf) < SubscriberChCap THEN buf ELSE Append(buf, v)

\* Variant: the value sent takes the place of the one the channel holds.
TrySendOverwrite(buf, v) == <<v>>

\* select { case ch <- v: default: } on a buffered channel.
TrySend(buf, v) == IF Len(buf) < SubscriberChCap THEN Append(buf, v) ELSE buf

\* Variant: the signal is buffered whatever the channel holds.
TrySignalAlways(n) == n + 1

\* select { case d.notifyCh <- struct{}{}: default: }
TrySignal(n) == IF n < NotifyChCap THEN n + 1 ELSE n

\* ------------------------------------------------------- Subscribe
\* A caller enters Subscribe: ch := make(chan []Component, 1), then d.Lock().
\* The callers are interchangeable: they enter in the order of their names.
SubCall(p) ==
    /\ spc[p] = "idle"
    /\ \A q \in Procs : q < p => spc[q] # "idle"
    /\ spc' = [spc EXCEPT ![p] = "lock"]
    /\ UNCHANGED <<envVars, discVars, pc, first, err, loadLocals, notifyLocals, old,
                   produced, lastRead, ctorVars, callVars, notified>>

\* Variant: Subscribe does not wait for the mutex.
MutexFreeAlways == TRUE

\* sync.Mutex: Lock returns when no one holds the mutex.
MutexFree == mutex = 0

\* d.Lock() returns.
SubLock(p) ==
    /\ spc[p] = "lock"
    /\ MutexFree
    /\ mutex' = p
    /\ spc' = [spc EXCEPT ![p] = "read"]
    /\ UNCHANGED <<envVars, subscriber, components, notifyCh, mailbox, pc, first, err,
                   loadLocals, notifyLocals, old, produced, lastRead, ctorVars, callVars, notified>>

\* append(d.subscriber, ch): the argument d.subscriber is read.
SubRead(p) ==
    /\ spc[p] = "read"
    /\ old' = [old EXCEPT ![p] = subscriber]
    /\ spc' = [spc EXCEPT ![p] = "write"]
    /\ UNCHANGED <<envVars, discVars, pc, first, err, loadLocals, notifyLocals,
                   produced, lastRead, ctorVars, callVars, notified>>

\* d.subscriber = ...: the grown slice is stored.
SubWrite(p) ==
    /\ spc[p] = "write"
    /\ subscriber' = Append(old[p], p)
    /\ old' = [old EXCEPT ![p] = <<>>]
    /\ spc' = [spc EXCEPT ![p] = "unlock"]
    /\ UNCHANGED <<envVars, components, notifyCh, mutex, mailbox, pc, first, err,
                   loadLocals, notifyLocals, produced, lastRead, ctorVars, callVars, notified>>

\* Variant: Subscribe goes on without releasing the mutex.
SubUnlockForgot(p) ==
    /\ spc[p] = "unlock"
    /\ spc' = [spc EXCEPT ![p] = "signal"]
    /\ UNCHANGED <<envVars, discVars, pc, first, err, loadLocals, notifyLocals, old,
                   produced, lastRead, ctorVars, callVars, notified>>

\* d.Unlock()
SubUnlock(p) ==
    /\ spc[p] = "unlock"
    /\ mutex' = 0
    /\ spc' = [spc EXCEPT ![p] = "signal"]
    /\ UNCHANGED <<envVars, subscriber, components, notifyCh, mailbox, pc, first, err,
                   loadLocals, notifyLocals, old, produced, lastRead, ctorVars, callVars, notified>>

\* The non-blocking send on d.notifyCh, then return ch.
SubSignal(p) ==
    /\ spc[p] = "signal"
    /\ notifyCh' = TrySignal(notifyCh)
    /\ spc' = [spc EXCEPT ![p] = "done"]
    /\ UNCHANGED <<envVars, subscriber, components, mutex, mailbox, pc, first, err,
                   loadLocals, notifyLocals, old, produced, lastRead, ctorVars, callVars, notified>>

\* The consumer receives from the channel Subscribe returned to it.
Read(p) ==
    /\ spc[p] = "done"
    /\ mailbox[p] # <<>>
    /\ lastRead' = [lastRead EXCEPT ![p] = Head(mailbox[p]).cycle]
    /\ mailbox' = [mailbox EXCEPT ![p] = Tail(mailbox[p])]
    /\ UNCHANGED <<envVars, subscriber, components, notifyCh, mutex, pc, first, err,
                   loadLocals, notifyLocals, subLocals, produced, ctorVars, callVars, notified>>

\* ------------------------------------------------- Start and Close
\* Entry of loadTopology and of getAllScrapeTargets: a fresh local slice.
EnterLoad ==
    /\ cycle' = cycle + 1
    /\ acc' = [cycle |-> cycle + 1, comps |-> <<>>]
    /\ fnIdx' = 1
    /\ anyErr' = FALSE
    /\ pc' = "fetch"

\* Start: the goroutine runs loadTopologyLoop, which begins with loadTopology.
Start ==
    /\ ~started
    /\ started' = TRUE
    /\ first' = TRUE
    /\ EnterLoad
    /\ UNCHANGED <<closed, etcdOpen, tickerC, discVars, err, notifyLocals, subLocals,
                   produced, lastRead, ctorVars, callVars, notified>>

\* Close: close(d.closed), d.etcdCli.Close(). A second call would panic on the
\* closed channel, so Close is called once.
Close ==
    /\ ~closed
    /\ closed' = TRUE
    /\ etcdOpen' = FALSE
    /\ UNCHANGED <<started, tickerC, discVars, pc, first, err, loadLocals,
                   notifyLocals, subLocals, produced, lastRead, ctorVars, callVars, notified>>

\* The ticker created after the first load puts a tick into ticker.C, which
\* holds one; the deferred ticker.Stop ends it.
Tick ==
    /\ started
    /\ ~first
    /\ pc # "stopped"
    /\ ~tickerC
    /\ cycle < MaxCycle
    /\ tickerC' = TRUE
    /\ UNCHANGED <<started, closed, etcdOpen, discVars, pc, first, err, loadLocals,
                   notifyLocals, subLocals, produced, lastRead, ctorVars, callVars, notified>>

\* ------------------------------------------------ loadTopology
\* Variant: a failing fn is skipped (continue) instead of ending the call.
getAllScrapeTargetsSkip(components_, r) ==
    [err |-> FALSE,
     components |-> [components_ EXCEPT !.comps = components_.comps \o r.nodes]]

\* One iteration of getAllScrapeTargets' loop over fns: r is fn(ctx).
getAllScrapeTargetsStep(components_, r) ==
    IF r.err THEN [err |-> TRUE, components |-> NilSnapshot]
    ELSE [err |-> FALSE,
          components |-> [components_ EXCEPT !.comps = components_.comps \o r.nodes]]

\* Variant: the result is stored before err is looked at.
loadTopologyNoCheck(stored, res) == res.components

\* d.components after loadTopology, given what getAllScrapeTargets returned.
loadTopology(stored, res) == IF res.err THEN stored ELSE res.components

\* Variant: the loop returns when loadTopology has failed.
AfterLoadReturnOnError ==
    /\ pc' = IF err' THEN "stopped" ELSE IF first THEN "select" ELSE "notify"
    /\ site' = IF first \/ err' THEN "none" ELSE "ticker"
    /\ first' = FALSE
    /\ fnIdx' = 0
    /\ acc' = NilSnapshot

\* Variant: notifySubscriber is called only when loadTopology has succeeded.
AfterLoadNotifyOnSuccess ==
    /\ pc' = IF first \/ err' THEN "select" ELSE "notify"
    /\ site' = IF first \/ err' THEN "none" ELSE "ticker"
    /\ first' = FALSE
    /\ fnIdx' = 0
    /\ acc' = NilSnapshot

\* Where the loop goes when loadTopology has returned: line 100 and the
\* ticker's creation after the first load, notifySubscriber after a later one.
AfterLoad ==
    /\ pc' = IF first THEN "select" ELSE "notify"
    /\ site' = IF first THEN "none" ELSE "ticker"
    /\ first' = FALSE
    /\ fnIdx' = 0
    /\ acc' = NilSnapshot

\* The call of fns[fnIdx] returns, its registry having given reply.
FetchReply(reply) ==
    LET res == getAllScrapeTargetsStep(acc, Fns(fnIdx, reply)) IN
    /\ anyErr' = (anyErr \/ reply.err)
    /\ hung' = FALSE
    /\ IF res.err
       THEN /\ err' = TRUE
            /\ components' = loadTopology(components, res)
            /\ got' = <<>>
            /\ AfterLoad
       ELSE /\ acc' = res.components
            /\ fnIdx' = fnIdx + 1
            /\ got' = Append(got, reply)
            /\ pc' = IF fnIdx = NumFns THEN "store" ELSE "fetch"
            /\ UNCHANGED <<components, err, first, site>>
    /\ UNCHANGED <<envVars, subscriber, notifyCh, mutex, mailbox, cycle, rng, idx,
                   wasFull, subLocals, produced, lastRead, ctorVars, notified>>

\* fns[fnIdx] answers.
Fetch ==
    /\ pc = "fetch"
    /\ ~hung
    /\ \E reply \in Replies(fnIdx) : FetchReply(reply)

\* fns[fnIdx] answers, with any list of instances.
AggFetch ==
    /\ pc = "fetch"
    /\ ~hung
    /\ \E reply \in AllReplies(fnIdx) \cup {ErrReply} : FetchReply(reply)

\* The registry fns[fnIdx] has called does not answer.
Hang ==
    /\ pc = "fetch"
    /\ ~hung
    /\ hung' = TRUE
    /\ UNCHANGED <<envVars, discVars, pc, first, err, loadLocals, notifyLocals,
                   subLocals, produced, lastRead, ctorVars, got, notified>>

\* Variant: every fn hands ctx to the call it makes.
UsesCtxAll(i) == i \in 1..NumFns

\* Whether fns[i] hands its ctx to the registry call it makes:
\* topo.GetTiDBInstances(ctx, d.etcdCli) does, topo.GetPDInstances(d.pdCli)
\* and topo.GetStoreInstances(d.pdCli) take no context.
UsesCtx(i) == i = 1

\* The deadline of loadTopology's ctx passes: a call that was given ctx
\* returns with an error.
Deadline ==
    /\ pc = "fetch"
    /\ hung
    /\ UsesCtx(fnIdx)
    /\ FetchReply(ErrReply)

\* getAllScrapeTargets returns components, nil; loadTopology stores them.
Store ==
    /\ pc = "store"
    /\ components' = loadTopology(components, [err |-> FALSE, components |-> acc])
    /\ err' = FALSE
    /\ produced' = IF anyErr THEN produced ELSE produced \cup {acc}
    /\ got' = <<>>
    /\ AfterLoad
    /\ UNCHANGED <<envVars, subscriber, notifyCh, mutex, mailbox, cycle, anyErr,
                   rng, idx, wasFull, subLocals, lastRead, ctorVars, hung, notified>>

\* ------------------------------------------------ the loop's select
\* The cases of the select of line 104 that can proceed.
SelectCases ==
    (IF closed THEN {"closed"} ELSE {})
    \cup (IF tickerC THEN {"ticker"} ELSE {})
    \cup (IF notifyCh > 0 THEN {"notify"} ELSE {})

\* Variant: break, which leaves only the select statement.
SelectClosedBreak ==
    /\ pc = "select"
    /\ "closed" \in SelectCases
    /\ UNCHANGED vars

\* case <-d.closed: return
SelectClosed ==
    /\ pc = "select"
    /\ "closed" \in SelectCases
    /\ pc' = "stopped"
    /\ tickerC' = FALSE
    /\ UNCHANGED <<started, closed, etcdOpen, discVars, first, err, loadLocals,
                   notifyLocals, subLocals, produced, lastRead, ctorVars, callVars, notified>>

\* case <-ticker.C: err = d.loadTopology() ...
SelectTicker ==
    /\ pc = "select"
    /\ "ticker" \in SelectCases
    /\ tickerC' = FALSE
    /\ EnterLoad
    /\ UNCHANGED <<started, closed, etcdOpen, discVars, first, err, notifyLocals,
                   subLocals, produced, lastRead, ctorVars, callVars, notified>>

\* Variant: the signal is handled like a tick, with a loadTopology first.
SelectNotifyRefresh ==
    /\ pc = "select"
    /\ "notify" \in SelectCases
    /\ notifyCh' = notifyCh - 1
    /\ EnterLoad
    /\ UNCHANGED <<envVars, subscriber, components, mutex, mailbox, first, err,
                   notifyLocals, subLocals, produced, lastRead, ctorVars, callVars, notified>>

\* case <-d.notifyCh: d.notifySubscriber()
SelectNotify ==
    /\ pc = "select"
    /\ "notify" \in SelectCases
    /\ notifyCh' = notifyCh - 1
    /\ pc' = "notify"
    /\ site' = "signal"
    /\ UNCHANGED <<envVars, subscriber, components, mutex, mailbox, first, err,
                   loadLocals, rng, idx, wasFull, subLocals, produced, lastRead, ctorVars, callVars, notified>>

\* ------------------------------------------------ notifySubscriber
\* The range expression d.subscriber is evaluated once, without the mutex:
\* the loop iterates over the slice as it is at this moment. The read is not
\* ordered with the store of line 79, so it can fall before or after it
\* while a caller is between SubLock and SubUnlock: both values are steps
\* of this action.
NotifyBegin ==
    /\ pc = "notify"
    /\ IF Len(subscriber) = 0
       THEN /\ pc' = "select"
            /\ site' = "none"
            /\ UNCHANGED <<rng, idx, wasFull>>
       ELSE /\ pc' = "send"
            /\ site' = site
            /\ rng' = subscriber
            /\ idx' = 1
            /\ wasFull' = {p \in Procs : \E i \in 1..Len(subscriber) :
                                           subscriber[i] = p /\ mailbox[p] # <<>>}
    /\ UNCHANGED <<envVars, discVars, first, err, loadLocals, subLocals, produced, lastRead, ctorVars, callVars, notified>>

\* Variant: a plain send, which waits for room in the channel.
NotifySendBlocking ==
    /\ pc = "send"
    /\ Len(mailbox[rng[idx]]) < SubscriberChCap
    /\ mailbox' = [mailbox EXCEPT ![rng[idx]] = Append(@, components)]
    /\ notified' = notified \cup {rng[idx]}
    /\ IF idx = Len(rng)
       THEN /\ pc' = "select"
            /\ rng' = <<>>
            /\ idx' = 0
            /\ site' = "none"
            /\ wasFull' = {}
       ELSE /\ pc' = "send"
            /\ idx' = idx + 1
            /\ UNCHANGED <<rng, site, wasFull>>
    /\ UNCHANGED <<envVars, subscriber, components, notifyCh, mutex, first, err,
                   loadLocals, subLocals, produced, lastRead, ctorVars, callVars>>

\* One iteration of the range: the non-blocking send of d.components.
NotifySend ==
    /\ pc = "send"
    /\ mailbox' = [mailbox EXCEPT ![rng[idx]] = TrySend(@, components)]
    /\ notified' = IF mailbox'[rng[idx]] # mailbox[rng[idx]]
                   THEN notified \cup {rng[idx]} ELSE notified
    /\ IF idx = Len(rng)
       THEN /\ pc' = "select"
            /\ rng' = <<>>
            /\ idx' = 0
            /\ site' = "none"
            /\ wasFull' = {}
       ELSE /\ pc' = "send"
            /\ idx' = idx + 1
            /\ UNCHANGED <<rng, site, wasFull>>
    /\ UNCHANGED <<envVars, subscriber, components, notifyCh, mutex, first, err,
                   loadLocals, subLocals, produced, lastRead, ctorVars, callVars>>

\* ------------------------------------------------ specification
LoopSelect ==
    \/ SelectClosed
    \/ SelectTicker
    \/ SelectNotify

LoopNotify ==
    \/ NotifyBegin
    \/ NotifySend

SubCritical(p) ==
    \/ SubRead(p)
    \/ SubWrite(p)
    \/ SubUnlock(p)
    \/ SubSignal(p)

Next ==
    \/ Start
    \/ Close
    \/ Tick
    \/ Fetch
    \/ Hang
    \/ Deadline
    \/ Store
    \/ LoopSelect
    \/ LoopNotify
    \/ \E p \in Procs : SubCall(p)
    \/ \E p \in Procs : SubLock(p)
    \/ \E p \in Procs : SubCritical(p)
    \/ \E p \in Procs : Read(p)

Spec == Init /\ [][Next]_vars

\* The first loadTopology of a started discoverer, over every answer of the
\* registries.
AggNext ==
    \/ Start
    \/ AggFetch
    \/ Store

AggSpec == Init /\ [][AggNext]_vars

\* The constructor, over every configuration.
NewNext == Construct

NewSpec == InitNew /\ [][NewNext]_vars

\* The Go scheduler runs every runnable goroutine: the loop goroutine leaves
\* its select when a case can proceed and finishes notifySubscriber; a caller
\* inside Subscribe runs on, and sync.Mutex hands the lock to a waiter (its
\* starvation mode). Nothing is assumed of the registries, of the ticker or
\* of the consumers.
FairSpec ==
    /\ Spec
    /\ WF_vars(LoopSelect)
    /\ WF_vars(LoopNotify)
    /\ \A p \in Procs : SF_vars(SubLock(p))
    /\ \A p \in Procs : WF_vars(SubCritical(p))

\* A registry that has not hung answers, the deadline of ctx passes for a
\* call that was given ctx, and the loop goroutine runs on when
\* getAllScrapeTargets has returned.
LiveSpec ==
    /\ FairSpec
    /\ WF_vars(Fetch)
    /\ WF_vars(Deadline)
    /\ WF_vars(Store)

Range(s) == {s[i] : i \in DOMAIN s}

Whole(snap) == snap = NilSnapshot \/ snap \in produced

\* The last step of a notifySubscriber call that line 114 made after a
\* loadTopology without error.
CyclePhaseEnds == pc = "send" /\ pc' = "select" /\ site = "ticker" /\ ~err

\* ------------------------------------------------------------ claims

\* C1: a cycle in which a registry answered with an error leaves d.components
\* as it was before the cycle (no step of such a cycle changes it, and the
\* store of line 128 is not reached), and d.components is always the nil
\* slice of a fresh discoverer or the result of a cycle all of whose
\* registries answered.
C1_FailedCycleKeepsSnapshot ==
    /\ [][(pc = "fetch" \/ (pc = "store" /\ anyErr)) => components' = components]_vars
    /\ [](Whole(components))

\* A later cycle has failed and the snapshot of the first one is still stored.
C1_Witness ==
    /\ pc = "notify"
    /\ err
    /\ anyErr
    /\ cycle > components.cycle
    /\ components \in produced

\* C2: every value buffered in a subscriber channel is the nil slice or the
\* result of a cycle all of whose registries answered.
C2_MailboxHoldsWholeSnapshot ==
    \A p \in Procs : \A i \in DOMAIN mailbox[p] : Whole(mailbox[p][i])

\* A channel holds the result of a complete cycle while the latest cycle failed.
C2_Witness ==
    /\ err
    /\ anyErr
    /\ \E p \in Procs : mailbox[p] # <<>> /\ Head(mailbox[p]) \in produced

\* C3 as stated: when the notifySubscriber call of a cycle without error
\* ends, every channel it ranged over holds the new snapshot, whatever it
\* held before (read here in the weakest way: a channel that is not empty
\* holds the new snapshot, so that a receive returns it).
C3_Original ==
    [][CyclePhaseEnds =>
         \A i \in DOMAIN rng :
            mailbox'[rng[i]] # <<>> => Head(mailbox'[rng[i]]) = components]_vars

\* C3 amended: when that call ends, a channel that was empty when the range
\* began holds the new snapshot unless its subscriber has already received
\* it; a channel that held a value then may still hold that older value
\* (the send was dropped), never a newer one.
C3_EmptyMailboxGetsNewSnapshot ==
    [][CyclePhaseEnds =>
         \A i \in DOMAIN rng :
            IF rng[i] \in wasFull
            THEN mailbox'[rng[i]] # <<>> =>
                    Head(mailbox'[rng[i]]).cycle <= components.cycle
            ELSE \/ mailbox'[rng[i]] = <<components>>
                 \/ mailbox'[rng[i]] = <<>> /\ lastRead'[rng[i]] = components.cycle]_vars

\* After a second cycle, one channel holds its snapshot and another still
\* holds an older one.
C3_Witness ==
    /\ pc = "select"
    /\ ~err
    /\ components.cycle > 1
    /\ \E p, q \in Procs :
         /\ mailbox[p] = <<components>>
         /\ mailbox[q] # <<>>
         /\ Head(mailbox[q]).cycle < components.cycle

\* C4: a subscriber channel never buffers more than one snapshot.
C4_AtMostOnePending ==
    \A p \in Procs : Len(mailbox[p]) <= 1

\* The range has passed a channel that was full when it began and still
\* holds that one older value.
C4_Witness ==
    /\ pc = "send"
    /\ idx > 1
    /\ rng[1] \in wasFull
    /\ Len(mailbox[rng[1]]) = 1
    /\ Head(mailbox[rng[1]]) # components

\* C5: every Subscribe call returns: a caller that has entered Subscribe
\* gets its channel, whatever the loop is doing and whether or not a signal
\* is buffered in notifyCh.
C5_SubscribeReturns ==
    \A p \in Procs : (spc[p] = "lock") ~> (spc[p] = "done")

\* A Subscribe call has returned while the loop is inside notifySubscriber,
\* a signal is buffered and another caller is inside Subscribe.
C5_Witness ==
    /\ pc = "send"
    /\ notifyCh = NotifyChCap
    /\ \E p, q \in Procs : spc[p] = "done" /\ spc[q] \notin {"idle", "done"}

\* C6: every notifySubscriber call ends and the loop is back at its select,
\* with no assumption on the consumers.
C6_NotifyingCompletes ==
    (pc \in {"notify", "send"}) ~> (pc = "select")

\* The loop is back at its select after the notification of a second cycle
\* although every channel still holds an older value and nothing was read.
C6_Witness ==
    /\ pc = "select"
    /\ components.cycle > 1
    /\ Len(subscriber) = MaxSub
    /\ \A p \in Procs : /\ mailbox[p] # <<>>
                        /\ Head(mailbox[p]).cycle < components.cycle
                        /\ lastRead[p] = 0

\* C7: the cycles of the snapshots one subscriber receives never decrease.
C7_ReadsNonDecreasing ==
    [][\A p \in Procs : lastRead'[p] >= lastRead[p]]_vars

\* A subscriber has received the snapshot of a second cycle and the same
\* snapshot is buffered for it again.
C7_Witness ==
    \E p \in Procs :
       /\ lastRead[p] > 1
       /\ mailbox[p] # <<>>
       /\ Head(mailbox[p]).cycle = lastRead[p]

\* C8 as stated: once d.closed is closed, the loop leaves its select only by
\* returning.
C8_Original ==
    [][(pc = "select" /\ closed /\ pc' # "select") => pc' = "stopped"]_vars

\* C8 amended: once d.closed is closed the loop does not stay at its select;
\* when neither a tick nor a signal is buffered there it returns without
\* another loadTopology or notifySubscriber, and when one is buffered the
\* select may take that case first.
C8_CloseEndsLoop ==
    /\ (closed /\ pc = "select") ~> (pc # "select")
    /\ [][(pc = "select" /\ closed /\ ~tickerC /\ notifyCh = 0 /\ pc' # "select")
            => pc' = "stopped"]_vars

\* The loop has returned after Close.
C8_Witness ==
    /\ pc = "stopped"
    /\ closed
    /\ started
    /\ ~etcdOpen

\* C9: the loop has returned only if Close was called, and the step in
\* which a registry answers with an error takes the loop to its select (the
\* first load) or to notifySubscriber, not out of the loop.
C9_OnlyCloseStops ==
    /\ [](pc = "stopped" => closed)
    /\ [][(pc = "fetch" /\ anyErr') => pc' \in {"select", "notify"}]_vars

\* The loop waits at its select after a failed later cycle, Close not called.
C9_Witness ==
    /\ pc = "select"
    /\ err
    /\ anyErr
    /\ cycle > 1
    /\ ~closed

\* C10: d.subscriber changes only by one new channel appended at its end,
\* and it holds exactly one entry for every Subscribe call that is past its
\* append.
C10_SubscriberOnlyGrows ==
    /\ [][\/ subscriber' = subscriber
          \/ \E p \in Procs : /\ p \notin Range(subscriber)
                              /\ subscriber' = Append(subscriber, p)]_vars
    /\ [](Range(subscriber) = {p \in Procs : spc[p] \in {"unlock", "signal", "done"}})
    /\ [](Cardinality(Range(subscriber)) = Len(subscriber))

\* A caller has appended its channel while another caller waits for the
\* mutex.
C10_Witness ==
    /\ Len(subscriber) > 0
    /\ \E p, q \in Procs :
         /\ spc[p] = "unlock"
         /\ subscriber[Len(subscriber)] = p
         /\ spc[q] = "lock"

\* The records a list of registry instances stands for: one for each instance
\* that is up, in the order of the list; a PD instance has no status port of
\* its own and is given its port.
RECURSIVE Records(_, _)
Records(name, instances) ==
    IF instances = <<>> THEN <<>>
    ELSE LET i == Head(instances) IN
         (IF i.Status = "up"
          THEN <<[Name |-> name, IP |-> i.IP, Port |-> i.Port,
                  StatusPort |-> IF name = "pd" THEN i.Port ELSE i.StatusPort]>>
          ELSE <<>>)
         \o Records(name, Tail(instances))

\* The snapshot the three answers r of one cycle stand for.
Concatenation(r) ==
    Records("tidb", r[1].instances) \o Records("pd", r[2].instances)
    \o Records("tikv", r[3].instances) \o Records("tiflash", r[3].tiflash)

\* Number of places of the sequence s that satisfy Test.
Count(s, Test(_)) == Cardinality({i \in DOMAIN s : Test(s[i])})

\* C11: when all three adapters of a cycle have succeeded, the snapshot the
\* cycle stores is the concatenation of the tidb, pd, tikv and tiflash
\* records, in this order, each kind in the order its registry listed the
\* instances, an instance listed twice giving two records.
C11_SnapshotIsConcatenation ==
    [][pc = "store" => components'.comps = Concatenation(got)]_vars

\* A stored snapshot with the four kinds of record in it, the first tidb
\* instance listed twice.
C11_Witness ==
    /\ pc = "select"
    /\ Len(components.comps) = 5
    /\ components.comps[1] = components.comps[2]
    /\ [i \in 1..5 |-> components.comps[i].Name]
         = <<"tidb", "tidb", "pd", "tikv", "tiflash">>

\* The instances the answers r list: pairs of a component name and an instance.
Listed(r) ==
    {<<"tidb", r[1].instances[i]>> : i \in DOMAIN r[1].instances}
    \cup (IF Len(r) < 2 THEN {} ELSE {<<"pd", r[2].instances[i]>> : i \in DOMAIN r[2].instances})
    \cup (IF Len(r) < 3 THEN {}
          ELSE {<<"tikv", r[3].instances[i]>> : i \in DOMAIN r[3].instances}
               \cup {<<"tiflash", r[3].tiflash[i]>> : i \in DOMAIN r[3].tiflash})

\* How many times the answers r list the instance inst as a component name.
TimesListed(r, name, inst) ==
    LET Same(i) == i = inst IN
    IF name = "tidb" THEN Count(r[1].instances, Same)
    ELSE IF name = "pd" THEN Count(r[2].instances, Same)
    ELSE IF name = "tikv" THEN Count(r[3].instances, Same)
    ELSE Count(r[3].tiflash, Same)

\* How many records of comps are for the instance inst of kind name.
TimesRecorded(comps, name, inst) ==
    LET For(c) == c.Name = name /\ c.IP = inst.IP /\ c.Port = inst.Port IN
    Count(comps, For)

\* Every record of comps is for an instance that is up.
OnlyUp(comps) ==
    \A i \in DOMAIN comps :
        \E inst \in TiDBPool \cup PDPool \cup TiKVPool \cup TiFlashPool :
            inst.Status = "up" /\ inst.IP = comps[i].IP

\* C12: in what the adapters of a cycle have returned so far, an instance
\* that is not up has no record and an instance that is up has one record
\* for each time it was listed; no stored snapshot has a record of an
\* instance that is not up; and an answer without error, whatever instances
\* it lists, does not end the cycle with an error.
C12_OnlyUpInstancesRecorded ==
    /\ [](pc \in {"fetch", "store"} /\ got # <<>> =>
            \A l \in Listed(got) :
                TimesRecorded(acc.comps, l[1], l[2])
                    = IF l[2].Status = "up" THEN TimesListed(got, l[1], l[2]) ELSE 0)
    /\ [](OnlyUp(components.comps) /\ OnlyUp(acc.comps))
    /\ [][(pc = "fetch" /\ ~anyErr') => (pc' \in {"fetch", "store"} /\ ~err')]_vars

\* All three adapters have returned without error, the registries having
\* listed instances that are down for each kind of component.
C12_Witness ==
    /\ pc = "store"
    /\ ~anyErr
    /\ Len(got) = 3
    /\ \E i \in DOMAIN got[1].instances : got[1].instances[i].Status = "down"
    /\ \E i \in DOMAIN got[2].instances : got[2].instances[i].Status = "down"
    /\ \E i \in DOMAIN got[3].instances : got[3].instances[i].Status = "down"
    /\ \E i \in DOMAIN got[3].tiflash : got[3].tiflash[i].Status = "down"
    /\ Len(acc.comps) = 2

\* C13: the constructor returns an error exactly when the list of PD
\* endpoints is empty or one of the two clients cannot be made; with an empty
\* list it has made no client; and whenever it returns an error it returns
\* no discoverer, while without error it returns one that holds both clients.
C13_ConstructionFailures ==
    made.called =>
        /\ made.err = (Len(cfg.Endpoints) = 0 \/ cfg.pdCliFails \/ cfg.etcdCliFails)
        /\ Len(cfg.Endpoints) = 0 => made.pdCli.nil /\ made.etcdCli.nil
        /\ made.err => made.d.nil
        /\ ~made.err =>
             /\ ~made.d.nil
             /\ ~made.d.pdCli.nil
             /\ ~made.d.etcdCli.nil

\* The constructor has failed on the second client, with endpoints given.
C13_Witness ==
    /\ made.called
    /\ made.err
    /\ made.d.nil
    /\ Len(cfg.Endpoints) > 0
    /\ ~cfg.pdCliFails
    /\ cfg.etcdCliFails

\* C14 as stated: in no state is a Subscribe caller inside its append to
\* d.subscriber (between Lock and the store of line 79) while the loop is
\* inside notifySubscriber, about to read d.subscriber or ranging over it.
C14_IterationSerializedWithAppend ==
    ~(/\ pc \in {"notify", "send"}
      /\ \E p \in Procs : spc[p] \in {"read", "write"})

\* C15 as stated: when the loop receives from d.notifyCh it begins a
\* loadTopology, as it does on a tick.
C15_Original ==
    [][(pc = "select" /\ notifyCh' < notifyCh) => pc' = "fetch"]_vars

\* C15: when the loop receives from d.notifyCh it goes to notifySubscriber
\* at once, with no loadTopology: d.components stays as stored and no cycle
\* begins until notifySubscriber has returned; only a tick begins a cycle
\* from the select.
C15_SignalOnlyNotifies ==
    /\ [][(pc = "select" /\ notifyCh' < notifyCh) =>
            (pc' = "notify" /\ cycle' = cycle /\ components' = components)]_vars
    /\ [](site = "signal" => pc \in {"notify", "send"})
    /\ [][(pc = "select" /\ pc' = "fetch") => (tickerC /\ ~tickerC')]_vars

\* The loop publishes after a signal, a cycle having been stored before.
C15_Witness ==
    /\ pc = "send"
    /\ site = "signal"
    /\ components.cycle > 0
    /\ cycle = components.cycle

\* C16 as stated: whenever a loadTopology ends, the first one and the failed
\* ones included, the loop goes to notifySubscriber.
C16_Original ==
    [][(pc \in {"fetch", "store"} /\ pc' \notin {"fetch", "store"}) =>
         pc' = "notify"]_vars

\* C16: whenever a loadTopology begun on a tick ends, with or without
\* error, the loop goes to notifySubscriber; when the first loadTopology
\* ends, the loop goes to the select without a notifySubscriber.
C16_TickRefreshThenNotify ==
    [][(pc \in {"fetch", "store"} /\ pc' \notin {"fetch", "store"}) =>
         IF first THEN pc' = "select" /\ site' = "none"
                  ELSE pc' = "notify" /\ site' = "ticker"]_vars

\* A loadTopology begun on a tick has failed and notifySubscriber is next.
C16_Witness ==
    /\ pc = "notify"
    /\ site = "ticker"
    /\ err
    /\ cycle > 1

\* C17: d.notifyCh never holds more than one signal; the send of Subscribe
\* puts one in when it holds none and leaves it alone when it holds one;
\* the receive of the loop's select leaves it empty.
C17_SingleSlotSignal ==
    /\ [](notifyCh \in {0, 1})
    /\ [][(\E p \in Procs : spc[p] = "signal" /\ spc'[p] = "done") =>
            notifyCh' = 1]_vars
    /\ [][(pc = "select" /\ pc' = "notify") => (notifyCh = 1 /\ notifyCh' = 0)]_vars

\* Two Subscribe calls have sent their signal, the loop has received none,
\* and one signal is pending.
C17_Witness ==
    /\ \A p \in Procs : spc[p] = "done"
    /\ ~started
    /\ notifyCh = 1

\* C19: one iteration of notifySubscriber's range leaves a channel that
\* holds a value as it is, puts d.components into a channel that holds none,
\* changes no other channel, and goes on to the next channel of the range.
C19_FullMailboxKept ==
    [][(pc = "send" /\ idx' # idx) =>
         /\ mailbox'[rng[idx]] = (IF mailbox[rng[idx]] # <<>>
                                  THEN mailbox[rng[idx]] ELSE <<components>>)
         /\ \A q \in Procs \ {rng[idx]} : mailbox'[q] = mailbox[q]
         /\ idx < Len(rng) => (pc' = "send" /\ idx' = idx + 1)]_vars

\* The send to the first channel of the range was dropped, the channel
\* keeping an older snapshot, and the second channel has received
\* d.components.
C19_Witness ==
    /\ pc = "select"
    /\ Len(subscriber) = 2
    /\ mailbox[subscriber[1]] # <<>>
    /\ Head(mailbox[subscriber[1]]).cycle < components.cycle
    /\ mailbox[subscriber[2]] = <<components>>

\* The loop is inside loadTopology.
Refreshing == pc \in {"fetch", "store"}

\* A registry call that was not given ctx is not answered.
HungForever == pc = "fetch" /\ hung /\ ~UsesCtx(fnIdx)

\* C18 as stated: every loadTopology ends, the deadline of its ctx ending
\* the call of any of the three adapters that is not answered.
C18_RefreshingTerminates == Refreshing ~> ~Refreshing

\* Every loadTopology ends unless a call that was not given ctx hangs.
C18_TerminatesUnlessHungForever == Refreshing ~> (~Refreshing \/ HungForever)

\* C20 as stated: once the discoverer is started and a Subscribe call has
\* returned its channel, a snapshot is put into that channel at some time,
\* unless Close is called.
C20_SubscriberEventuallyNotified ==
    \A p \in Procs : (started /\ spc[p] = "done") ~> (p \in notified \/ closed)

\* The same, unless a call that was not given ctx hangs.
C20_NotifiedUnlessHungForever ==
    \A p \in Procs :
        (started /\ spc[p] = "done") ~> (p \in notified \/ closed \/ HungForever)

====
